---- MODULE Spec2Model ----
(***************************************************************************)
(* grab_epl_data of dataProcessing.py: the index page is fetched and       *)
(* parsed, the 'Premier League' links are selected and trimmed, each       *)
(* selected season is downloaded and cleaned inside a try block, and the   *)
(* accepted season tables are concatenated, pruned and sorted by date.     *)
(*                                                                         *)
(* Strings that the code splits on '/' are kept as the sequence of their   *)
(* '/'-separated components.  A table cell is a sequence: <<>> is a        *)
(* missing value (NaN / NaT), a raw CSV date "d/m" is <<d, m>>, a parsed   *)
(* date is <<ordinal>>, any other value is a one-element sequence.         *)
(* An anchor is taken to carry an href (the Link pair of the data model).  *)
(***************************************************************************)
EXTENDS Integers, Sequences, FiniteSets

VARIABLES pc, soup, links, links_text, data_urls, i, season, temp_df,
          df_list, out, ret, exc, season_state, resp

vars == <<pc, soup, links, links_text, data_urls, i, season, temp_df,
          df_list, out, ret, exc, season_state, resp>>

----------------------------------------------------------------------------
(* Program constants *)

TrimCount == 12

Thresh == 30

prefix == <<"http:", "", "www.football-data.co.uk", "">>

Label == "Premier League"

(* Bounds of the explored inputs *)

MaxHead == 2

MaxGood == 1

----------------------------------------------------------------------------
(* Cells and tables *)

NA == <<>>

IsNA(c) == Len(c) = 0

EmptyDF == [cols |-> {}, rows |-> <<>>]

Max(a, b) == IF a >= b THEN a ELSE b

(* str.split('/')[4]: the fifth component, an IndexError when there are fewer *)
CanSplit(url) == Len(url) >= 5

SeasonOf(url) == url[5]

(* prefix + href: the prefix ends with '/', so its last (empty) component is
   the one the first component of href continues *)
PrefixUrl(href) == SubSeq(prefix, 1, Len(prefix) - 1) \o href

(* pd.to_datetime(..., dayfirst=True, errors='coerce') of one cell: a "d/m"
   text with a month 1..12 and a day of that month parses, anything else is
   coerced to NaT.  The resources below hold no text whose reading depends on
   the pandas version (a month above 12 with a day up to 12). *)
DaysIn(m) == IF m = 2 THEN 28 ELSE IF m \in {4, 6, 9, 11} THEN 30 ELSE 31

to_datetime(c) ==
    IF Len(c) = 2 /\ c[2] \in 1..12 /\ c[1] \in 1..DaysIn(c[2])
    THEN <<(c[2] - 1) * 31 + c[1]>>
    ELSE NA

(* temp_df[col] = value *)
SetColumn(df, col, v) ==
    [cols |-> df.cols \cup {col},
     rows |-> [k \in DOMAIN df.rows |->
                 [c \in df.cols \cup {col} |-> IF c = col THEN v ELSE df.rows[k][c]]]]

(* temp_df[col] = f(temp_df[col]), cell by cell *)
MapColumn(df, col) ==
    [cols |-> df.cols,
     rows |-> [k \in DOMAIN df.rows |->
                 [c \in df.cols |-> IF c = col THEN to_datetime(df.rows[k][c])
                                               ELSE df.rows[k][c]]]]

NonMissing(df, c) == Cardinality({k \in DOMAIN df.rows : ~IsNA(df.rows[k][c])})

KeepColumns(df, keep) ==
    [cols |-> keep,
     rows |-> [k \in DOMAIN df.rows |-> [c \in keep |-> df.rows[k][c]]]]

(* variant: a column with exactly t non-missing values is dropped too *)
DropSparseColumns_strict(df, t) ==
    KeepColumns(df, {c \in df.cols : NonMissing(df, c) > t})

(* df.dropna(axis='columns', thresh=t): keep the columns with >= t non-missing *)
DropSparseColumns(df, t) ==
    KeepColumns(df, {c \in df.cols : NonMissing(df, c) >= t})

(* variant: the global column drop is left out *)
DropNaColumns_none(df) == df

(* df.dropna(axis=1): keep the columns with no missing value *)
DropNaColumns(df) ==
    KeepColumns(df, {c \in df.cols : \A k \in DOMAIN df.rows : ~IsNA(df.rows[k][c])})

RowOk(row, cs) == \A c \in cs : ~IsNA(row[c])

(* df.dropna(subset=[col]) *)
DropNaSubset(df, col) ==
    [cols |-> df.cols, rows |-> SelectSeq(df.rows, LAMBDA r : ~IsNA(r[col]))]

(* df.dropna(): drop the rows with any missing value *)
DropNaRows(df) ==
    [cols |-> df.cols, rows |-> SelectSeq(df.rows, LAMBDA r : RowOk(r, df.cols))]

Widen(rows, from, to) ==
    [k \in DOMAIN rows |-> [c \in to |-> IF c \in from THEN rows[k][c] ELSE NA]]

RECURSIVE ConcatRows(_, _)
ConcatRows(dfs, cs) ==
    IF dfs = <<>> THEN <<>>
    ELSE Widen(dfs[1].rows, dfs[1].cols, cs) \o ConcatRows(Tail(dfs), cs)

(* pd.concat(dfs, ignore_index=True): union of the columns, rows in order *)
Concat(dfs) ==
    LET cs == UNION {dfs[k].cols : k \in DOMAIN dfs}
    IN  [cols |-> cs, rows |-> ConcatRows(dfs, cs)]

Reverse(s) == [k \in DOMAIN s |-> s[Len(s) + 1 - k]]

MinOf(S) == CHOOSE x \in S : \A y \in S : x <= y

RECURSIVE SortBuckets(_, _, _, _)
SortBuckets(rows, col, keys, rev) ==
    IF keys = {} THEN <<>>
    ELSE LET m == MinOf(keys)
             b == SelectSeq(rows, LAMBDA r : r[col][1] = m)
         IN  (IF rev THEN Reverse(b) ELSE b) \o SortBuckets(rows, col, keys \ {m}, rev)

(* df.sort_values(by=col): ascending; the order of equal keys is not fixed by
   the default (unstable) sort, rev picks one of two tie orders *)
SortValues(df, col, rev) ==
    [cols |-> df.cols,
     rows |-> SortBuckets(df.rows, col, {df.rows[k][col][1] : k \in DOMAIN df.rows}, rev)]

----------------------------------------------------------------------------
(* The index pages the site may serve *)

SeasonTokens ==
    <<"2526", "2425", "2324", "2223", "2122", "2021", "1920", "1819",
      "1718", "1617", "1516", "1415", "1314", "1213", "1112", "1011",
      "0910", "0809", "0708", "0607", "0506", "0405", "0304", "0203">>

AnchorKinds == {"PL", "CH", "short"}

(* the q-th season's anchor: a Premier League link, a link with another
   label, or a Premier League link whose target has a single component *)
Anchor(kind, q) ==
    IF kind = "PL" THEN [href |-> <<"mmz4281", SeasonTokens[q], "E0.csv">>, text |-> Label]
    ELSE IF kind = "CH" THEN [href |-> <<"mmz4281", SeasonTokens[q], "E1.csv">>,
                              text |-> "Championship"]
    ELSE [href |-> <<"E0.csv">>, text |-> Label]

Heads == UNION {[1..n -> AnchorKinds] : n \in 0..MaxHead}

TailCounts == {0, TrimCount - 1, TrimCount}

(* a body cell: the head anchors, then t older seasons, each a Premier
   League link followed by a Championship link *)
Body(h, t) ==
    [k \in 1..Len(h) |-> Anchor(h[k], k)]
    \o [k \in 1..(2 * t) |-> IF k % 2 = 1 THEN Anchor("PL", Len(h) + (k + 1) \div 2)
                                          ELSE Anchor("CH", Len(h) + k \div 2)]

Bodies == {Body(h, t) : h \in Heads, t \in TailCounts}

DecoyCell == <<Anchor("PL", Len(SeasonTokens))>>

(* a page is the list of the tables matching the layout attributes, a table
   the list of its valign=top cells, a cell the list of its anchors *)
Pages ==
    {<<>>, << <<DecoyCell>> >>, << <<DecoyCell>>, <<>> >>, << <<DecoyCell>>, <<DecoyCell>> >>}
    \cup {<< <<DecoyCell>>, <<DecoyCell, b>> >> : b \in Bodies}

----------------------------------------------------------------------------
(* The season resources the site may serve *)

GoodDate(j) == IF j % 2 = 1 THEN <<1, 2>> ELSE <<2, 1>>

GoodRows(g) == [j \in 1..g |-> [c \in {"Date", "FTHG"} |->
                                   IF c = "Date" THEN GoodDate(j) ELSE <<j>>]]

DefectKinds == {"nadate", "baddate", "nax", "baddate_nax"}

DefectRow(kind) ==
    [c \in {"Date", "FTHG"} |->
        IF c = "Date"
        THEN (IF kind = "nadate" THEN NA ELSE IF kind = "nax" THEN <<2, 1>> ELSE <<32, 1>>)
        ELSE (IF kind \in {"nax", "baddate_nax"} THEN NA ELSE <<0>>)]

MkCsv(g, kind, d) ==
    [cols |-> {"Date", "FTHG"},
     rows |-> GoodRows(g) \o [j \in 1..d |-> DefectRow(kind)]]

DefectCounts == {Thresh, Thresh + 1}

GoodCounts == {0, MaxGood}

(* resources with and without dated rows and a block of defective rows at or
   just over the pruning tolerance, a resource without defects, one without
   the FTHG column and one without the Date column *)
Csvs ==
    {MkCsv(g, k, d) : g \in GoodCounts, k \in DefectKinds, d \in DefectCounts}
    \cup {MkCsv(g, "nax", 0) : g \in GoodCounts}
    \cup {KeepColumns(MkCsv(MaxGood + 1, "nax", 0), {"Date"}),
          KeepColumns(MkCsv(MaxGood + 1, "nax", 0), {"FTHG"})}

----------------------------------------------------------------------------
(* variant: the rows whose date did not parse are kept *)
CleanSeason_keepnat(df0, s) ==
    LET tagged == SetColumn(df0, "season", <<s>>)
        pruned == DropSparseColumns(tagged, Len(tagged.rows) - Thresh)
        parsed == MapColumn(pruned, "Date")
    IN  IF "Date" \notin pruned.cols THEN [kind |-> "error", df |-> EmptyDF]
        ELSE IF parsed.rows = <<>> THEN [kind |-> "empty", df |-> parsed]
        ELSE [kind |-> "ok", df |-> parsed]

(* Lines 37-49: the cleaning of one parsed season table.  kind is "ok" (the
   table is appended), "empty" (the else branch) or "error" (the KeyError of
   temp_df['Date'] reaching the except clause) *)
CleanSeason(df0, s) ==
    LET tagged == SetColumn(df0, "season", <<s>>)
        pruned == DropSparseColumns(tagged, Len(tagged.rows) - Thresh)
        parsed == MapColumn(pruned, "Date")
        dated  == DropNaSubset(parsed, "Date")
    IN  IF "Date" \notin pruned.cols THEN [kind |-> "error", df |-> EmptyDF]
        ELSE IF dated.rows = <<>> THEN [kind |-> "empty", df |-> dated]
        ELSE [kind |-> "ok", df |-> dated]

(* Line 24 *)
SelectUrls(ls, texts) ==
    LET idx == SelectSeq([k \in DOMAIN texts |-> k], LAMBDA k : texts[k] = Label)
    IN  [k \in DOMAIN idx |-> PrefixUrl(ls[idx[k]])]

(* variant: data_urls[12:], the first entries are dropped instead of the last *)
TrimUrls_head(urls) == SubSeq(urls, TrimCount + 1, Len(urls))

(* Line 27: data_urls[:-12] *)
TrimUrls(urls) == SubSeq(urls, 1, Max(0, Len(urls) - TrimCount))

(* variant: the sort is left out *)
Combine_unsorted(dfs, rev) == DropNaRows(DropNaColumns(Concat(dfs)))

(* Line 57 *)
Combine(dfs, rev) == SortValues(DropNaRows(DropNaColumns(Concat(dfs))), "Date", rev)

Line(msg, arg) == [msg |-> msg, arg |-> arg]

----------------------------------------------------------------------------
Init ==
    /\ pc = "start"
    /\ soup = <<>>
    /\ links = <<>>
    /\ links_text = <<>>
    /\ data_urls = <<>>
    /\ i = 1
    /\ season = ""
    /\ temp_df = EmptyDF
    /\ df_list = <<>>
    /\ out = <<>>
    /\ ret = <<>>
    /\ exc = ""
    /\ season_state = <<>>
    /\ resp = <<>>

(* an uncaught exception leaves grab_epl_data: its locals are gone and
   nothing is returned *)
Raise(e) ==
    /\ pc' = "aborted"
    /\ exc' = e
    /\ df_list' = <<>>
    /\ temp_df' = EmptyDF
    /\ UNCHANGED <<soup, links, links_text, data_urls, i, season, out, ret,
                   season_state, resp>>

(* Lines 12-13 *)
FetchIndexOk ==
    /\ pc = "start"
    /\ \E page \in Pages : soup' = page
    /\ pc' = "soup"
    /\ UNCHANGED <<links, links_text, data_urls, i, season, temp_df, df_list,
                   out, ret, exc, season_state, resp>>

FetchIndexFail ==
    /\ pc = "start"
    /\ Raise("ConnectionError")

(* variant: a missing table or cell is read as a cell without anchors *)
ParseIndex_fallback ==
    /\ pc = "soup"
    /\ LET body == IF Len(soup) < 2 \/ Len(soup[2]) < 2 THEN <<>> ELSE soup[2][2]
       IN  /\ links' = [k \in DOMAIN body |-> body[k].href]
           /\ links_text' = [k \in DOMAIN body |-> body[k].text]
    /\ pc' = "links"
    /\ UNCHANGED <<soup, data_urls, i, season, temp_df, df_list, out,
                   ret, exc, season_state, resp>>

(* Lines 16-21 *)
ParseIndex ==
    /\ pc = "soup"
    /\ IF Len(soup) < 2 \/ Len(soup[2]) < 2
       THEN Raise("IndexError")
       ELSE LET body == soup[2][2]
            IN  /\ links' = [k \in DOMAIN body |-> body[k].href]
                /\ links_text' = [k \in DOMAIN body |-> body[k].text]
                /\ pc' = "links"
                /\ UNCHANGED <<soup, data_urls, i, season, temp_df, df_list, out,
                               ret, exc, season_state, resp>>

(* Lines 23-24 *)
BuildUrls ==
    /\ pc = "links"
    /\ data_urls' = SelectUrls(links, links_text)
    /\ pc' = "urls"
    /\ UNCHANGED <<soup, links, links_text, i, season, temp_df, df_list, out,
                   ret, exc, season_state, resp>>

(* Lines 27-29 *)
Trim ==
    /\ pc = "urls"
    /\ data_urls' = TrimUrls(data_urls)
    /\ df_list' = <<>>
    /\ i' = 1
    /\ season_state' = [k \in DOMAIN TrimUrls(data_urls) |-> "pending"]
    /\ resp' = [k \in DOMAIN TrimUrls(data_urls) |-> <<>>]
    /\ pc' = "loop"
    /\ UNCHANGED <<soup, links, links_text, season, temp_df, out, ret, exc>>

(* variant: the season identifier is derived inside the try block *)
StartSeason_caught ==
    /\ pc = "loop"
    /\ i <= Len(data_urls)
    /\ IF ~CanSplit(data_urls[i])
       THEN /\ out' = Append(out, Line("Failed to process", data_urls[i]))
            /\ season_state' = [season_state EXCEPT ![i] = "skipped-error"]
            /\ i' = i + 1
            /\ UNCHANGED <<soup, links, links_text, data_urls, season, temp_df,
                           df_list, ret, exc, resp, pc>>
       ELSE /\ season' = SeasonOf(data_urls[i])
            /\ out' = Append(out, Line("Getting data for season", <<SeasonOf(data_urls[i])>>))
            /\ pc' = "try"
            /\ UNCHANGED <<soup, links, links_text, data_urls, i, temp_df, df_list,
                           ret, exc, season_state, resp>>

(* Lines 31-33 *)
StartSeason ==
    /\ pc = "loop"
    /\ i <= Len(data_urls)
    /\ IF ~CanSplit(data_urls[i])
       THEN Raise("IndexError")
       ELSE /\ season' = SeasonOf(data_urls[i])
            /\ out' = Append(out, Line("Getting data for season", <<SeasonOf(data_urls[i])>>))
            /\ pc' = "try"
            /\ UNCHANGED <<soup, links, links_text, data_urls, i, temp_df, df_list,
                           ret, exc, season_state, resp>>

(* Line 36, the download and parse succeed *)
ReadCsvOk ==
    /\ pc = "try"
    /\ \E csv \in Csvs :
          /\ temp_df' = csv
          /\ resp' = [resp EXCEPT ![i] = <<[ok |-> TRUE, df |-> csv]>>]
    /\ pc' = "read"
    /\ UNCHANGED <<soup, links, links_text, data_urls, i, season, df_list, out,
                   ret, exc, season_state>>

(* variant: the except clause empties the accumulator *)
ReadCsvFail_clears ==
    /\ pc = "try"
    /\ resp' = [resp EXCEPT ![i] = <<[ok |-> FALSE, df |-> EmptyDF]>>]
    /\ out' = Append(out, Line("Failed to process", data_urls[i]))
    /\ season_state' = [season_state EXCEPT ![i] = "skipped-error"]
    /\ df_list' = <<>>
    /\ i' = i + 1
    /\ pc' = "loop"
    /\ UNCHANGED <<soup, links, links_text, data_urls, season, temp_df, ret, exc>>

(* variant: the append sits after the try block, so a failed season appends
   the table left over from the season before it *)
ReadCsvFail_stale ==
    /\ pc = "try"
    /\ resp' = [resp EXCEPT ![i] = <<[ok |-> FALSE, df |-> EmptyDF]>>]
    /\ out' = Append(out, Line("Failed to process", data_urls[i]))
    /\ season_state' = [season_state EXCEPT ![i] = "skipped-error"]
    /\ df_list' = IF temp_df.rows # <<>> THEN Append(df_list, temp_df) ELSE df_list
    /\ i' = i + 1
    /\ pc' = "loop"
    /\ UNCHANGED <<soup, links, links_text, data_urls, season, temp_df, ret, exc>>

(* Line 36 raises, lines 51-52 *)
ReadCsvFail ==
    /\ pc = "try"
    /\ resp' = [resp EXCEPT ![i] = <<[ok |-> FALSE, df |-> EmptyDF]>>]
    /\ out' = Append(out, Line("Failed to process", data_urls[i]))
    /\ season_state' = [season_state EXCEPT ![i] = "skipped-error"]
    /\ i' = i + 1
    /\ pc' = "loop"
    /\ UNCHANGED <<soup, links, links_text, data_urls, season, temp_df, df_list,
                   ret, exc>>

(* Lines 37-52 *)
Clean ==
    /\ pc = "read"
    /\ LET r == CleanSeason(temp_df, season)
       IN  /\ temp_df' = r.df
           /\ df_list' = IF r.kind = "ok" THEN Append(df_list, r.df) ELSE df_list
           /\ out' = IF r.kind = "ok" THEN out
                     ELSE IF r.kind = "empty"
                          THEN Append(out, Line("Skipped season", <<season>>))
                          ELSE Append(out, Line("Failed to process", data_urls[i]))
           /\ season_state' = [season_state EXCEPT ![i] =
                                  IF r.kind = "ok" THEN "succeeded"
                                  ELSE IF r.kind = "empty" THEN "skipped-empty"
                                  ELSE "skipped-error"]
    /\ i' = i + 1
    /\ pc' = "loop"
    /\ UNCHANGED <<soup, links, links_text, data_urls, season, ret, exc, resp>>

(* variant: the accumulator is concatenated without the emptiness test, and
   pd.concat of no tables raises *)
Finish_noguard ==
    /\ pc = "loop"
    /\ i > Len(data_urls)
    /\ IF df_list # <<>>
       THEN /\ \E rev \in BOOLEAN :
                  /\ ret' = <<Combine(df_list, rev)>>
                  /\ out' = Append(out, Line("Finished grabbing data.", <<>>))
            /\ pc' = "done"
            /\ UNCHANGED <<soup, links, links_text, data_urls, i, season, temp_df,
                           df_list, exc, season_state, resp>>
       ELSE Raise("ValueError")

(* Lines 55-62 *)
Finish ==
    /\ pc = "loop"
    /\ i > Len(data_urls)
    /\ IF df_list # <<>>
       THEN \E rev \in BOOLEAN :
               /\ ret' = <<Combine(df_list, rev)>>
               /\ out' = Append(out, Line("Finished grabbing data.", <<>>))
       ELSE /\ ret' = <<EmptyDF>>
            /\ out' = Append(out, Line("No data was collected.", <<>>))
    /\ pc' = "done"
    /\ UNCHANGED <<soup, links, links_text, data_urls, i, season, temp_df, df_list,
                   exc, season_state, resp>>

Next ==
    \/ FetchIndexOk
    \/ FetchIndexFail
    \/ ParseIndex
    \/ BuildUrls
    \/ Trim
    \/ StartSeason
    \/ ReadCsvOk
    \/ ReadCsvFail
    \/ Clean
    \/ Finish

Spec == Init /\ [][Next]_vars

----------------------------------------------------------------------------
(* Vocabulary of the properties *)

StructOk == Len(soup) >= 2 /\ Len(soup[2]) >= 2

Trimmed == pc \in {"loop", "try", "read", "done"}

MatchSet == {k \in DOMAIN soup[2][2] : soup[2][2][k].text = "Premier League"}

MatchCount == Cardinality(MatchSet)

KthMatch(k) == CHOOSE j \in MatchSet : Cardinality({x \in MatchSet : x <= j}) = k

ExpectedUrl(j) == <<"http:", "", "www.football-data.co.uk">> \o soup[2][2][j].href

Logged(msg, arg) == \E k \in DOMAIN out : out[k] = [msg |-> msg, arg |-> arg]

IsParsedDate(c) == Len(c) = 1 /\ c[1] \in 1..372

MonthDays == <<31, 28, 31, 30, 31, 30, 31, 31, 30, 31, 30, 31>>

ParsesDayFirst(c) == Len(c) = 2 /\ c[2] \in DOMAIN MonthDays /\ c[1] \in 1..MonthDays[c[2]]

Succeeded == {j \in DOMAIN season_state : season_state[j] = "succeeded"}

TableOf(j) == df_list[Cardinality({x \in Succeeded : x <= j})]

RECURSIVE RowCount(_)
RowCount(dfs) == IF dfs = <<>> THEN 0 ELSE Len(dfs[1].rows) + RowCount(Tail(dfs))

DownloadFailed(j) == Len(resp[j]) = 1 /\ ~resp[j][1].ok

Parsed(j) == Len(resp[j]) = 1 /\ resp[j][1].ok

----------------------------------------------------------------------------
(* C1: when grab_epl_data returns, the returned table has no missing cell in
   any retained column, every row has a parsed date, and the rows are in
   non-decreasing order of Date *)
C1_CombinedTable ==
    pc = "done" =>
        /\ Len(ret) = 1
        /\ \A k \in DOMAIN ret[1].rows :
              /\ \A c \in ret[1].cols : Len(ret[1].rows[k][c]) > 0
              /\ "Date" \in ret[1].cols
              /\ IsParsedDate(ret[1].rows[k]["Date"])
              /\ k > 1 => ret[1].rows[k - 1]["Date"][1] <= ret[1].rows[k]["Date"][1]

C1_Witness ==
    /\ pc = "done"
    /\ Len(df_list) = 2
    /\ ret[1].rows[1]["Date"][1] < ret[1].rows[Len(ret[1].rows)]["Date"][1]
    /\ df_list[1].rows[1]["Date"][1] > df_list[1].rows[Len(df_list[1].rows)]["Date"][1]

(* C3: with m 'Premier League' labels in the body cell, the selection has m
   entries before the trim and max(0, m - 12) after it, and the k-th entry is
   the base URL followed by the target of the k-th matching anchor *)
C3_UrlSelector ==
    /\ pc = "urls" =>
          /\ Len(data_urls) = MatchCount
          /\ \A k \in DOMAIN data_urls : data_urls[k] = ExpectedUrl(KthMatch(k))
    /\ Trimmed =>
          /\ Len(data_urls) = (IF MatchCount > 12 THEN MatchCount - 12 ELSE 0)
          /\ \A k \in DOMAIN data_urls : data_urls[k] = ExpectedUrl(KthMatch(k))

C3_Witness ==
    /\ pc = "loop"
    /\ MatchCount = 13
    /\ Len(data_urls) = 1
    /\ links_text[1] # "Premier League"
    /\ data_urls[1] = <<"http:", "", "www.football-data.co.uk">> \o links[2]

(* C8: a failed index fetch, or an index page with fewer than two matching
   tables or fewer than two matching cells in the second table, ends the run
   with the exception: no season is started, nothing is reported, nothing is
   returned *)
C8_FatalTier ==
    ~StructOk =>
        /\ pc \in {"start", "soup", "aborted"}
        /\ pc = "aborted" => exc \in {"ConnectionError", "IndexError"}
        /\ out = <<>>
        /\ data_urls = <<>>
        /\ resp = <<>>
        /\ ret = <<>>

C8_Witness ==
    /\ pc = "aborted"
    /\ exc = "IndexError"
    /\ Len(soup) = 2
    /\ Len(soup[2]) = 1

(* C4: with at most 12 matching links, or with every selected season skipped,
   the run does not fail: it can always go on to its end, where it reports
   'No data was collected.' and returns the empty table; and that line is
   reported only at the end of a loop that left the accumulator empty *)
C4_EmptyResult ==
    /\ (StructOk /\ (MatchCount <= 12 \/
                     (season_state # <<>> /\ \A j \in DOMAIN season_state :
                                    season_state[j] \in {"skipped-error", "skipped-empty"})))
          => /\ pc # "aborted"
             /\ pc = "done" \/ ENABLED Next
             /\ pc = "done" => /\ Logged("No data was collected.", <<>>)
                               /\ ~Logged("Finished grabbing data.", <<>>)
                               /\ ret = <<[cols |-> {}, rows |-> <<>>]>>
    /\ Logged("No data was collected.", <<>>) => pc = "done" /\ df_list = <<>>

C4_Witness ==
    /\ pc = "done"
    /\ season_state = <<"skipped-error", "skipped-empty">>
    /\ Logged("No data was collected.", <<>>)

(* what the accumulator holds when only the seasons whose resource parsed
   are processed, in order *)
RECURSIVE Replay(_)
Replay(n) ==
    IF n = 0 THEN <<>>
    ELSE IF Parsed(n) /\ season_state[n] # "pending"
         THEN LET r == CleanSeason(resp[n][1].df, data_urls[n][5])
              IN  IF r.kind = "ok" THEN Append(Replay(n - 1), r.df) ELSE Replay(n - 1)
         ELSE Replay(n - 1)

NoRowOfSeason(df, j) ==
    \A k \in DOMAIN df.rows : "season" \in df.cols => df.rows[k]["season"] # <<data_urls[j][5]>>

(* C2: a season whose download or parse fails is skipped with an error line
   naming its URL, the loop goes on past it, none of its rows is in the
   accumulator or in the returned table, and the accumulator is what the
   other seasons alone would have produced *)
C2_FailedSeasonSkipped ==
    /\ \A j \in DOMAIN resp : DownloadFailed(j) =>
          /\ season_state[j] = "skipped-error"
          /\ Logged("Failed to process", data_urls[j])
          /\ i > j
          /\ \A k \in DOMAIN df_list : NoRowOfSeason(df_list[k], j)
          /\ pc = "done" => NoRowOfSeason(ret[1], j)
    /\ Trimmed => df_list = Replay(Len(data_urls))

C2_Witness ==
    /\ pc = "done"
    /\ Len(data_urls) = 2
    /\ DownloadFailed(1)
    /\ season_state[2] = "succeeded"
    /\ Len(ret[1].rows) > 0

(* C5: in a season table of r rows, a column with fewer than r - 30
   non-missing values is absent from the cleaned table and a column with at
   least r - 30 is present in it; the season column is never pruned, and no
   column is pruned when r <= 30 *)
CleanedOk(raw, cleaned) ==
    LET r == Len(raw.rows)
        present(c) == Cardinality({k \in DOMAIN raw.rows : raw.rows[k][c] # <<>>})
    IN  /\ \A c \in raw.cols : (present(c) < r - 30) <=> (c \notin cleaned.cols)
        /\ "season" \in cleaned.cols
        /\ cleaned.cols \subseteq raw.cols \cup {"season"}
        /\ r <= 30 => cleaned.cols = raw.cols \cup {"season"}

C5_ColumnPruning ==
    /\ Trimmed => \A j \in Succeeded : CleanedOk(resp[j][1].df, TableOf(j))
    /\ (pc = "loop" /\ i > 1 /\ season_state[i - 1] = "skipped-empty")
          => CleanedOk(resp[i - 1][1].df, temp_df)

C5_Witness ==
    /\ pc = "loop"
    /\ i = 2
    /\ season_state[1] = "succeeded"
    /\ Len(resp[1][1].df.rows) = 32
    /\ "FTHG" \in resp[1][1].df.cols
    /\ "FTHG" \notin df_list[1].cols

(* C6: every table in the accumulator is non-empty, holds exactly the rows of
   its resource whose date parsed day-first, each with a parsed date and the
   season identifier of its URL; a season whose rows all carry a date that
   does not parse is not appended and is reported as skipped *)
AllUnparseable(df) ==
    /\ "Date" \in df.cols
    /\ \A k \in DOMAIN df.rows : df.rows[k]["Date"] # <<>> /\ ~ParsesDayFirst(df.rows[k]["Date"])

C6_Accumulator ==
    /\ (pc # "aborted") =>
          /\ Len(df_list) = Cardinality(Succeeded)
          /\ \A j \in Succeeded :
                /\ TableOf(j).rows # <<>>
                /\ Len(TableOf(j).rows) =
                      Cardinality({k \in DOMAIN resp[j][1].df.rows :
                                      ParsesDayFirst(resp[j][1].df.rows[k]["Date"])})
                /\ \A k \in DOMAIN TableOf(j).rows :
                      /\ IsParsedDate(TableOf(j).rows[k]["Date"])
                      /\ TableOf(j).rows[k]["season"] = <<data_urls[j][5]>>
    /\ \A j \in DOMAIN resp :
          (Parsed(j) /\ season_state[j] # "pending" /\ AllUnparseable(resp[j][1].df)) =>
              /\ season_state[j] = "skipped-empty"
              /\ Logged("Skipped season", <<data_urls[j][5]>>)

C6_Witness ==
    /\ pc = "loop"
    /\ i = 3
    /\ season_state = <<"succeeded", "skipped-empty">>
    /\ AllUnparseable(resp[2][1].df)
    /\ Len(resp[2][1].df.rows) = 31
    /\ Len(df_list[1].rows) < Len(resp[1][1].df.rows)

(* C7: the seasons are started one at a time in the order of the trimmed
   sequence, each started only after the one before it has its outcome; a
   season leaves pending for exactly one of the three outcomes and keeps it;
   the accumulator holds one table for each succeeded season and no other;
   when the loop has ended no season is pending *)
Started == SelectSeq(out, LAMBDA l : l.msg = "Getting data for season")

C7_State ==
    /\ Len(Started) <= Len(season_state)
    /\ \A j \in DOMAIN season_state :
          /\ season_state[j] \in {"pending", "succeeded", "skipped-error", "skipped-empty"}
          /\ j <= Len(Started) => Started[j].arg = <<data_urls[j][5]>>
          /\ j < Len(Started) => season_state[j] # "pending"
          /\ j > Len(Started) => season_state[j] = "pending"
          /\ season_state[j] # "pending" => j < i
          /\ (season_state[j] = "pending" /\ j = Len(Started)) => (pc \in {"try", "read"} /\ i = j)
    /\ pc \in {"try", "read"} => Len(Started) = i
    /\ pc # "aborted" =>
          /\ Len(df_list) = Cardinality(Succeeded)
          /\ \A j \in Succeeded : TableOf(j).rows[1]["season"] = <<data_urls[j][5]>>
    /\ pc = "done" => \A j \in DOMAIN season_state : season_state[j] # "pending"

C7_Step ==
    /\ \A j \in DOMAIN season_state :
          season_state[j] # "pending" => (j \in DOMAIN season_state' /\ season_state'[j] = season_state[j])
    /\ Cardinality({j \in DOMAIN season_state :
                       j \in DOMAIN season_state' /\ season_state'[j] # season_state[j]}) <= 1
    /\ pc' # "aborted" =>
          /\ Len(df_list') \in {Len(df_list), Len(df_list) + 1}
          /\ SubSeq(df_list', 1, Len(df_list)) = df_list

C7_SeasonStateMachine == [](C7_State) /\ [][C7_Step]_vars

C7_Witness ==
    /\ pc = "done"
    /\ season_state = <<"skipped-error", "succeeded">>
    /\ Len(df_list) = 1

(* C9: with at least one accepted season the returned table has as many rows
   as the accepted tables together, keeps Date and season, is not empty, and
   keeps another column exactly when every accepted table has it without a
   missing value; 'Finished grabbing data.' comes with a non-empty table *)
Complete(df, c) == c \in df.cols /\ \A k \in DOMAIN df.rows : df.rows[k][c] # <<>>

C9_FinalPruning ==
    /\ (pc = "done" /\ df_list # <<>>) =>
          /\ Logged("Finished grabbing data.", <<>>)
          /\ Len(ret[1].rows) = RowCount(df_list)
          /\ {"Date", "season"} \subseteq ret[1].cols
          /\ \A c \in ({"FTHG"} \cup UNION {df_list[k].cols : k \in DOMAIN df_list})
                         \ {"Date", "season"} :
                c \in ret[1].cols <=> \A k \in DOMAIN df_list : Complete(df_list[k], c)
    /\ Logged("Finished grabbing data.", <<>>) => (pc = "done" /\ ret[1].rows # <<>>)

C9_Witness ==
    /\ pc = "done"
    /\ Len(df_list) = 2
    /\ Complete(df_list[1], "FTHG")
    /\ "FTHG" \in df_list[2].cols
    /\ ~Complete(df_list[2], "FTHG")
    /\ "FTHG" \notin ret[1].cols

(* C10: a season whose table has no Date column, or whose Date is missing in
   more than 30 rows, ends as skipped-error with a 'Failed to process' line
   and contributes no row; a selected URL with fewer than 5 components is
   never caught: the seasons before it are processed, then the run ends with
   the exception and returns nothing *)
DateMissing(df) == Cardinality({k \in DOMAIN df.rows : df.rows[k]["Date"] = <<>>})

C10_RecoveryScope ==
    /\ \A j \in DOMAIN resp :
          (Parsed(j) /\ season_state[j] # "pending"
             /\ ("Date" \notin resp[j][1].df.cols \/ DateMissing(resp[j][1].df) > 30)) =>
                /\ season_state[j] = "skipped-error"
                /\ Logged("Failed to process", data_urls[j])
                /\ \A k \in DOMAIN df_list : NoRowOfSeason(df_list[k], j)
                /\ pc = "done" => NoRowOfSeason(ret[1], j)
    /\ \A j \in DOMAIN season_state : Len(data_urls[j]) < 5 =>
          /\ season_state[j] = "pending"
          /\ ~Logged("Failed to process", data_urls[j])
          /\ pc # "done"
          /\ i <= j
          /\ (i = j /\ pc # "loop") => (pc = "aborted" /\ exc = "IndexError"
                                          /\ ret = <<>> /\ df_list = <<>>)

C10_Witness ==
    /\ pc = "aborted"
    /\ i = 2
    /\ season_state[1] = "succeeded"
    /\ Len(data_urls[2]) < 5
    /\ ret = <<>>

====
